---- MODULE Spec2Model ----
(***************************************************************************)
(* Air-quality ETL pipeline (openaq_etl.py) and dashboard (app.py).        *)
(*                                                                         *)
(* Concentrations are kept in tenths of a microgram per cubic metre, so    *)
(* that the decimal cut-offs of the dashboard (35.4, 55.4, ...) are exact  *)
(* integers: the reading 42.0 is 420, the cut-off 55.4 is 554.             *)
(* A mean is kept as the exact fraction sum/n; n = 0 is the float NaN      *)
(* that pandas returns for the mean, max or min of no values.              *)
(***************************************************************************)
EXTENDS Integers, Sequences, FiniteSets, TLC

VARIABLES
    \* ---- openaq_etl.py, one run of the script after the other
    pc,             \* position of the script: "start", "fetched", "transformed", "done"
    response,       \* what requests.get produced in the current run
    raw_data,       \* result of fetch_air_quality_data(): a DataFrame or None
    cleaned_data,   \* result of transform(): a DataFrame or None
    db,             \* the file air.db and its table quality
    load_result,    \* "not_called", "ok", or the step of load_to_sqlite that raised
    db_before,      \* history: db as it was when the current run started
    repeat,         \* history: the current run got the response of the run before it,
                    \*          and that run loaded successfully
    \* ---- app.py, one execution of the script per user interaction
    df,             \* load_data(): the snapshot
    top_n,          \* slider "Select number of locations to show"
    pm25_threshold, \* slider "PM2.5 Threshold"
    selected_country, \* selectbox "Select Location"
    avg_pm25,       \* ranking view: sequence of [location, mean]
    colors,         \* bar colours of the ranking view
    map_data,       \* rows handed to the map, each with its colour
    summary,        \* the three st.metric texts
    status,         \* get_air_quality_status of the selected location's mean
    critical_locations, \* rows of the alert view
    alert           \* what the tail of the alert view shows

etl_vars == <<pc, response, raw_data, cleaned_data, db, load_result, db_before, repeat>>
app_vars == <<df, top_n, pm25_threshold, selected_country, avg_pm25, colors,
              map_data, summary, status, critical_locations, alert>>
vars == <<etl_vars, app_vars>>

(***************************************************************************)
(* Python values.                                                          *)
(***************************************************************************)
None == [type |-> "None"]
NaN == [type |-> "nan"]
NaT == [type |-> "NaT"]
PyStr(s) == [type |-> "str", v |-> s]
PyNum(n) == [type |-> "float", v |-> n]
PyDict(d) == [type |-> "dict", v |-> d]
Timestamp(s) == [type |-> "Timestamp", v |-> s]

isinstance_dict(x) == x.type = "dict"

\* dict.get(key): the value, or None when the key is absent
dict_get(x, key) == IF key \in DOMAIN x.v THEN x.v[key] ELSE None

\* pandas treats None, NaN and NaT alike as "missing"
isna(x) == x.type \in {"None", "nan", "NaT"}

Without(r, k) == [f \in DOMAIN r \ {k} |-> r[f]]
With(r, k, x) == [f \in DOMAIN r \cup {k} |-> IF f = k THEN x ELSE r[f]]

(***************************************************************************)
(* Bounds and the upstream responses the model draws from.                 *)
(***************************************************************************)
MaxBatch == 2

BaseRecord ==
    [location |-> PyStr("A"), parameter |-> PyStr("pm25"), value |-> PyNum(420),
     unit |-> PyStr("ug/m3"),
     coordinates |-> PyDict([latitude |-> PyNum(1), longitude |-> PyNum(2)]),
     date |-> PyDict([utc |-> PyStr("2024-01-01T00:00:00Z")])]

\* The base record and records that differ from it in one respect.
RawRecords ==
    { BaseRecord,
      With(With(BaseRecord, "location", PyStr("B")), "value", PyNum(600)),
      With(With(BaseRecord, "parameter", PyStr("no2")), "value", PyNum(100)),
      With(BaseRecord, "value", PyNum(0)),
      Without(BaseRecord, "value"),
      Without(BaseRecord, "coordinates"),
      With(BaseRecord, "coordinates", PyStr("n/a")),
      With(BaseRecord, "coordinates", PyDict([latitude |-> PyNum(1)])),
      Without(BaseRecord, "date"),
      With(BaseRecord, "date", PyStr("2024-01-01T00:00:00Z")),
      With(BaseRecord, "date", PyStr("not a date")),
      Without(BaseRecord, "unit"),
      With(BaseRecord, "city", PyStr("X")) }

Batches == UNION { [1..n -> RawRecords] : n \in 0..MaxBatch }

Responses ==
    { [kind |-> "response", status |-> 200, json |-> [results |-> b]] : b \in Batches }
    \cup { [kind |-> "response", status |-> 200, json |-> [detail |-> "no results"]],
           [kind |-> "response", status |-> 204, json |-> [results |-> <<>>]],
           [kind |-> "response", status |-> 500, json |-> [detail |-> "error"]],
           [kind |-> "ConnectionError"] }

(***************************************************************************)
(* pandas.DataFrame(list of dicts): the columns are the keys that occur in *)
(* any record; a record without the key holds NaN in that column.          *)
(***************************************************************************)
DataFrame(data) ==
    LET cols == UNION { DOMAIN data[i] : i \in 1..Len(data) }
    IN [columns |-> cols,
        rows |-> [i \in 1..Len(data) |->
                    [c \in cols |-> IF c \in DOMAIN data[i] THEN data[i][c] ELSE NaN]]]

(***************************************************************************)
(* fetch_air_quality_data                                                  *)
(***************************************************************************)
fetch_air_quality_data(resp) ==
    IF resp.kind # "response" THEN None                 \* requests.get raised
    ELSE IF resp.status = 200
         THEN IF "results" \in DOMAIN resp.json
              THEN DataFrame(resp.json["results"])
              ELSE None                                \* response.json()["results"] raised
         ELSE None

(***************************************************************************)
(* transform                                                               *)
(***************************************************************************)
columns_to_drop == {"city", "isAnalysis", "isMobile", "entity", "sensorType"}

schema_columns ==
    {"location", "parameter", "pm25_value", "unit", "latitude", "longitude", "datetime_utc"}

\* DataFrame.drop(columns=...)
drop(frame, cols) ==
    [columns |-> frame.columns \ cols,
     rows |-> [i \in 1..Len(frame.rows) |->
                 [c \in frame.columns \ cols |-> frame.rows[i][c]]]]

\* frame[column] = series
assign(frame, column, series) ==
    [columns |-> frame.columns \cup {column},
     rows |-> [i \in 1..Len(frame.rows) |->
                 [c \in frame.columns \cup {column} |->
                    IF c = column THEN series[i] ELSE frame.rows[i][c]]]]

\* frame[mask]: the rows whose entry in the mask is True, in their order
boolean_index(frame, mask) ==
    LET kept(i) == mask[i]
        indices == SelectSeq([i \in 1..Len(frame.rows) |-> i], kept)
    IN [columns |-> frame.columns,
        rows |-> [k \in 1..Len(indices) |-> frame.rows[indices[k]]]]

\* frame[column] as a series, and series.apply(f) spelled out per use below
column_of(frame, column) == [i \in 1..Len(frame.rows) |-> frame.rows[i][column]]

\* cleaned_df['parameter'] == 'pm25' on one element (NaN equals nothing)
is_pm25(x) == x = PyStr("pm25")

\* lambda x: x.get('latitude') if isinstance(x, dict) else None
coordinate(x, key) == IF isinstance_dict(x) THEN dict_get(x, key) ELSE None

\* lambda x: x.get('utc') if isinstance(x, dict) else x
date_utc(x) == IF isinstance_dict(x) THEN dict_get(x, "utc") ELSE x

\* pd.to_datetime on one element: missing gives NaT, an ISO string a Timestamp;
\* anything else makes the whole call raise
ParsesAsDatetime(x) == isna(x) \/ (x.type = "str" /\ x.v \in {"2024-01-01T00:00:00Z"})
to_datetime(x) == IF isna(x) THEN NaT ELSE Timestamp("2024-01-01 00:00:00+00:00")

\* cleaned_df['value'] > 0 on one element; a comparison with NaN is False
\* (faulty variant: >= in place of >)
value_gt_0_mutant(x) == x.type = "float" /\ x.v >= 0
value_gt_0(x) == x.type = "float" /\ x.v > 0

\* cleaned_df.rename(columns={'value': 'pm25_value'})
rename_value(frame) ==
    [columns |-> (frame.columns \ {"value"}) \cup {"pm25_value"},
     rows |-> [i \in 1..Len(frame.rows) |->
                 [c \in (frame.columns \ {"value"}) \cup {"pm25_value"} |->
                    IF c = "pm25_value" THEN frame.rows[i]["value"] ELSE frame.rows[i][c]]]]

\* cleaned_df[[...the seven columns...]]
project(frame) ==
    [columns |-> schema_columns,
     rows |-> [i \in 1..Len(frame.rows) |-> [c \in schema_columns |-> frame.rows[i][c]]]]

transform(frame) ==
    LET dropped == drop(frame, columns_to_drop \cap frame.columns)
    IN IF "parameter" \notin dropped.columns THEN None          \* KeyError
       ELSE
       LET parameter == column_of(dropped, "parameter")
           pm25 == boolean_index(dropped, [i \in DOMAIN parameter |-> is_pm25(parameter[i])])
           coordinates == column_of(pm25, "coordinates")
           latitude == [i \in DOMAIN coordinates |-> coordinate(coordinates[i], "latitude")]
           longitude == [i \in DOMAIN coordinates |-> coordinate(coordinates[i], "longitude")]
           flat == IF "coordinates" \in pm25.columns
                   THEN drop(assign(assign(pm25, "latitude", latitude), "longitude", longitude),
                             {"coordinates"})
                   ELSE pm25
           date == column_of(flat, "date")
           utc == [i \in DOMAIN date |-> date_utc(date[i])]
       IN IF "date" \in flat.columns /\ \E i \in DOMAIN utc : ~ParsesAsDatetime(utc[i])
          THEN None                                              \* to_datetime raised
          ELSE
          LET dated == IF "date" \in flat.columns
                       THEN drop(assign(flat, "datetime_utc",
                                        [i \in DOMAIN utc |-> to_datetime(utc[i])]),
                                 {"date"})
                       ELSE flat
          IN IF "value" \notin dated.columns THEN None           \* KeyError
             ELSE
             LET value == column_of(dated, "value")
                 positive == boolean_index(dated, [i \in DOMAIN value |-> value_gt_0(value[i])])
                 renamed == rename_value(positive)
             IN IF ~(schema_columns \subseteq renamed.columns) THEN None   \* KeyError
                ELSE project(renamed)

(***************************************************************************)
(* load_to_sqlite                                                          *)
(***************************************************************************)
NULL == [type |-> "NULL"]

NoFile == [file |-> FALSE, table |-> FALSE, rows |-> <<>>]
EmptyTable == [file |-> TRUE, table |-> TRUE, rows |-> <<>>]

\* what sqlite stores for one cell: missing values become NULL, a Timestamp
\* becomes its text, strings and numbers are stored as they are
sql_value(x) ==
    IF isna(x) THEN NULL
    ELSE IF x.type = "Timestamp" THEN PyStr(x.v)
    ELSE x

sql_rows(frame) ==
    [i \in 1..Len(frame.rows) |-> [c \in frame.columns |-> sql_value(frame.rows[i][c])]]

\* os.remove(db_path) followed by df.to_sql('quality', conn, if_exists='replace'):
\* the rows of the table afterwards, given the rows it held before
\* (faulty variant: the file is kept and the rows are appended)
to_sql_mutant(existing, frame) == existing \o sql_rows(frame)
to_sql(existing, frame) == sql_rows(frame)

\* The steps of load_to_sqlite that can raise, in order.  Whatever raises is
\* caught and printed; the file is left as the steps before it made it.
LoadFaults == {"none", "os.remove", "sqlite3.connect", "to_sql"}

load_to_sqlite(old, frame, fault) ==
    IF fault = "os.remove" /\ old.file
    THEN [db |-> old, result |-> "os.remove"]
    ELSE IF fault = "sqlite3.connect"
    THEN [db |-> NoFile, result |-> "sqlite3.connect"]
    ELSE IF fault = "to_sql" \/ frame = None
    THEN [db |-> EmptyTable, result |-> "to_sql"]   \* CREATE TABLE ran, the insert did not
    ELSE [db |-> [file |-> TRUE, table |-> TRUE, rows |-> to_sql(old.rows, frame)],
          result |-> "ok"]

(***************************************************************************)
(* The script: if __name__ == "__main__"                                   *)
(***************************************************************************)
proceeds_to_transform(raw) == raw # None

\* (faulty variant: the test on cleaned_data is missing)
proceeds_to_load_mutant(cleaned) == TRUE
proceeds_to_load(cleaned) == cleaned # None

\* raw_data = fetch_air_quality_data(), and the test that follows it
fetch_step(resp) ==
    /\ response' = resp
    /\ raw_data' = fetch_air_quality_data(resp)
    /\ pc' = IF proceeds_to_transform(raw_data') THEN "fetched" ELSE "done"
    /\ cleaned_data' = None
    /\ load_result' = "not_called"
    /\ db_before' = db
    /\ UNCHANGED <<db, app_vars>>

\* The script is started and the API answers with any response.
Fetch ==
    /\ pc = "start"
    /\ \E resp \in Responses : fetch_step(resp)
    /\ repeat' = FALSE

\* The script is started again right after a run, and the API answers as before.
Rerun ==
    /\ pc = "done"
    /\ fetch_step(response)
    /\ repeat' = (load_result = "ok")

\* The process ends: only air.db outlives it.
Exit ==
    /\ pc = "done"
    /\ pc' = "start"
    /\ response' = None /\ raw_data' = None /\ cleaned_data' = None
    /\ load_result' = "not_called"
    /\ db_before' = db
    /\ repeat' = FALSE
    /\ UNCHANGED <<db, app_vars>>

\* cleaned_data = transform(raw_data)
Transform ==
    /\ pc = "fetched"
    /\ cleaned_data' = transform(raw_data)
    /\ pc' = IF proceeds_to_load(cleaned_data') THEN "transformed" ELSE "done"
    /\ UNCHANGED <<response, raw_data, db, load_result, db_before, repeat, app_vars>>

\* load_to_sqlite(cleaned_data)
Load ==
    /\ pc = "transformed"
    /\ \E fault \in LoadFaults :
         LET out == load_to_sqlite(db, cleaned_data, fault)
         IN /\ db' = out.db
            /\ load_result' = out.result
    /\ pc' = "done"
    /\ UNCHANGED <<response, raw_data, cleaned_data, db_before, repeat, app_vars>>

AppIdle ==
    /\ df = None /\ top_n = 0 /\ pm25_threshold = 0 /\ selected_country = None
    /\ avg_pm25 = <<>> /\ colors = <<>> /\ map_data = <<>> /\ summary = None
    /\ status = None /\ critical_locations = <<>> /\ alert = None

Init ==
    /\ pc = "start"
    /\ response = None
    /\ raw_data = None
    /\ cleaned_data = None
    /\ db = NoFile
    /\ load_result = "not_called"
    /\ db_before = NoFile
    /\ repeat = FALSE
    /\ AppIdle

Next == Fetch \/ Transform \/ Load \/ Rerun \/ Exit

Spec == Init /\ [][Next]_vars

(***************************************************************************)
(* app.py                                                                  *)
(*                                                                         *)
(* Numbers of the dashboard are fractions [s, n] of tenths: the reading v  *)
(* is [s |-> v, n |-> 1], the mean of n readings is [s |-> their sum,      *)
(* n |-> n], and n = 0 is NaN.  Every comparison with NaN is false.        *)
(***************************************************************************)
Frac(sum, count) == [s |-> sum, n |-> count]
FracNaN == Frac(0, 0)
number(x) == IF x.type = "float" THEN Frac(x.v, 1) ELSE FracNaN

lt(x, c) == x.n > 0 /\ x.s < c * x.n
le(x, c) == x.n > 0 /\ x.s <= c * x.n
gt(x, c) == x.n > 0 /\ x.s > c * x.n
ge(x, c) == x.n > 0 /\ x.s >= c * x.n
less(x, y) == x.n > 0 /\ y.n > 0 /\ x.s * y.n < y.s * x.n

\* load_data: SELECT * FROM quality; a NULL is read back as a missing value
from_sql(x) == IF x = NULL THEN NaN ELSE x

load_data(database) ==
    [columns |-> schema_columns,
     rows |-> [i \in 1..Len(database.rows) |->
                 [c \in schema_columns |-> from_sql(database.rows[i][c])]]]

\* Location names in alphabetical order: sorted() and groupby() both order by it.
LocationNames == <<"A", "B", "C", "D", "E", "F", "G", "H">>

HasLocation(frame, name) ==
    \E i \in 1..Len(frame.rows) : frame.rows[i]["location"] = PyStr(name)

\* countries = sorted(df['location'].unique())
countries_of(frame) ==
    LET present(name) == HasLocation(frame, name)
    IN SelectSeq(LocationNames, present)

RECURSIVE sum_of(_)
sum_of(values) ==
    IF values = <<>> THEN 0 ELSE Head(values).v + sum_of(Tail(values))

\* Series.mean(): NaN for no values
mean(values) == Frac(sum_of(values), Len(values))

RECURSIVE max_of(_)
max_of(values) ==
    IF values = <<>> THEN FracNaN
    ELSE LET rest == max_of(Tail(values))
         IN IF rest.n = 0 \/ less(rest, number(Head(values)))
            THEN number(Head(values)) ELSE rest

RECURSIVE min_of(_)
min_of(values) ==
    IF values = <<>> THEN FracNaN
    ELSE LET rest == min_of(Tail(values))
         IN IF rest.n = 0 \/ less(number(Head(values)), rest)
            THEN number(Head(values)) ELSE rest

pm25_values(rows) == [i \in 1..Len(rows) |-> rows[i]["pm25_value"]]

\* df[df['location'] == name]['pm25_value']
values_at(frame, name) ==
    LET here(row) == row["location"] = name
    IN pm25_values(SelectSeq(frame.rows, here))

\* df.groupby('location')['pm25_value'].mean(): one entry per location, by name
groupby_mean(frame) ==
    LET names == countries_of(frame)
    IN [k \in 1..Len(names) |->
          [location |-> names[k], mean |-> mean(values_at(frame, PyStr(names[k])))]]

\* sort_values(ascending=False): entries of equal mean keep their order
\* (faulty variant: ascending order)
RECURSIVE sort_values_mutant(_)
sort_values_mutant(entries) ==
    IF entries = <<>> THEN <<>>
    ELSE LET last == entries[Len(entries)]
             front == sort_values_mutant(SubSeq(entries, 1, Len(entries) - 1))
             before(e) == ~less(last.mean, e.mean)
             after(e) == less(last.mean, e.mean)
         IN SelectSeq(front, before) \o <<last>> \o SelectSeq(front, after)

RECURSIVE sort_values(_)
sort_values(entries) ==
    IF entries = <<>> THEN <<>>
    ELSE LET last == entries[Len(entries)]
             front == sort_values(SubSeq(entries, 1, Len(entries) - 1))
             before(e) == ~less(e.mean, last.mean)
             after(e) == less(e.mean, last.mean)
         IN SelectSeq(front, before) \o <<last>> \o SelectSeq(front, after)

\* Series.head(n)
head(entries, n) == SubSeq(entries, 1, IF n < Len(entries) THEN n ELSE Len(entries))

\* 'green' if x < 50 else 'yellow' if x < 100 else 'red'
\* (faulty variant: <= 100 in place of < 100)
severity_color_mutant(x) ==
    IF lt(x, 500) THEN "green" ELSE IF le(x, 1000) THEN "yellow" ELSE "red"
severity_color(x) ==
    IF lt(x, 500) THEN "green" ELSE IF lt(x, 1000) THEN "yellow" ELSE "red"

\* df[df['pm25_value'] >= pm25_threshold], each row with its colour
map_rows(frame, threshold) ==
    LET shown(row) == ge(number(row["pm25_value"]), threshold * 10)
        kept == SelectSeq(frame.rows, shown)
    IN [i \in 1..Len(kept) |->
          [row |-> kept[i], color |-> severity_color(number(kept[i]["pm25_value"]))]]

\* f"{x:.2f}": "nan" for NaN, else x to two decimals (here as hundredths)
format_2f(x) ==
    IF x.n = 0 THEN [text |-> "nan"]
    ELSE LET q == (x.s * 10) \div x.n
             r == (x.s * 10) % x.n
         IN [hundredths |-> IF 2 * r > x.n \/ (2 * r = x.n /\ q % 2 = 1) THEN q + 1 ELSE q]

\* st.metric(label, f"{...:.2f} ug/m3")
metric(x) == [value |-> format_2f(x), unit |-> "ug/m3"]

summary_of(frame) ==
    [max |-> metric(max_of(pm25_values(frame.rows))),
     min |-> metric(min_of(pm25_values(frame.rows))),
     mean |-> metric(mean(pm25_values(frame.rows)))]

get_air_quality_status(pm25_value) ==
    IF le(pm25_value, 120) THEN "Good"
    ELSE IF le(pm25_value, 354) THEN "Moderate"
    ELSE IF le(pm25_value, 554) THEN "Unhealthy for Sensitive Groups"
    ELSE IF le(pm25_value, 1504) THEN "Unhealthy"
    ELSE IF le(pm25_value, 2504) THEN "Very Unhealthy"
    ELSE "Hazardous"

alert_color(category) ==
    IF category = "Good" THEN "green"
    ELSE IF category \in {"Moderate", "Unhealthy for Sensitive Groups"} THEN "orange"
    ELSE "red"

\* the banner "Current Alert Status" for the selected location
status_of(frame, selected) ==
    LET current_location_data == mean(values_at(frame, selected))
        category == get_air_quality_status(current_location_data)
    IN [level |-> format_2f(current_location_data),
        status |-> category,
        color |-> alert_color(category)]

\* df['pm25_value'] > 55.4
\* (faulty variant: >= in place of >)
is_critical_mutant(row) == ge(number(row["pm25_value"]), 554)
is_critical(row) == gt(number(row["pm25_value"]), 554)

RECURSIVE drop_duplicates(_)
drop_duplicates(rows) ==
    IF rows = <<>> THEN <<>>
    ELSE LET front == drop_duplicates(SubSeq(rows, 1, Len(rows) - 1))
             last == rows[Len(rows)]
         IN IF \E i \in 1..Len(front) : front[i] = last THEN front ELSE Append(front, last)

\* df[df['pm25_value'] > 55.4][['location', 'pm25_value', 'datetime_utc']].drop_duplicates()
critical_rows(frame) ==
    LET picked == SelectSeq(frame.rows, is_critical)
    IN drop_duplicates([i \in 1..Len(picked) |->
          [c \in {"location", "pm25_value", "datetime_utc"} |-> picked[i][c]]])

\* One execution of the script on the snapshot with the widgets' values.
run_script(frame, n, threshold, selected) ==
    /\ df' = frame
    /\ top_n' = n
    /\ pm25_threshold' = threshold
    /\ selected_country' = selected
    /\ avg_pm25' = head(sort_values(groupby_mean(frame)), n)
    /\ colors' = [k \in 1..Len(avg_pm25') |-> severity_color(avg_pm25'[k].mean)]
    /\ map_data' = map_rows(frame, threshold)
    /\ summary' = summary_of(frame)
    /\ status' = status_of(frame, selected)
    /\ critical_locations' = critical_rows(frame)
    /\ alert' = IF critical_locations' # <<>> THEN "warnings" ELSE "no_critical"
    /\ UNCHANGED etl_vars

(***************************************************************************)
(* The dashboard's widgets and the specifications of the dashboard.        *)
(***************************************************************************)
TopNMin == 5
TopNMax == 20
TopNDefault == 10
ThresholdMin == 0
ThresholdMax == 200
ThresholdDefault == 50

\* The model moves a slider in steps of this many positions.
TopNStep == 5
ThresholdStep == 25

TopNChoices == { n \in TopNMin..TopNMax : (n - TopNMin) % TopNStep = 0 }
ThresholdChoices == { t \in ThresholdMin..ThresholdMax : (t - ThresholdMin) % ThresholdStep = 0 }

\* st.selectbox(label, options): the first option until the user picks one,
\* None when there is no option
selectbox_default(options) == IF options = <<>> THEN None ELSE PyStr(options[1])

\* The script runs for the first time: load_data(), widgets at their defaults.
OpenApp ==
    /\ df = None
    /\ db.table
    /\ LET frame == load_data(db)
       IN run_script(frame, TopNDefault, ThresholdDefault,
                     selectbox_default(countries_of(frame)))

SetTopN ==
    /\ df # None
    /\ \E n \in TopNChoices : run_script(df, n, pm25_threshold, selected_country)

SetThreshold ==
    /\ df # None
    /\ \E t \in ThresholdChoices : run_script(df, top_n, t, selected_country)

SelectLocation ==
    /\ df # None
    /\ \E k \in 1..Len(countries_of(df)) :
          run_script(df, top_n, pm25_threshold, PyStr(countries_of(df)[k]))

\* The pipeline has exited and left the table that one of its runs loaded.
LoadedBy(batch) ==
    LET cleaned == transform(DataFrame(batch))
    IN /\ cleaned # None
       /\ db = load_to_sqlite(NoFile, cleaned, "none").db
       /\ pc = "start" /\ response = None /\ raw_data = None /\ cleaned_data = None
       /\ load_result = "not_called" /\ db_before = db /\ repeat = FALSE
       /\ AppIdle

\* Snapshots for the views that bucket single readings: a few rows with
\* readings on and around the cut-offs, with and without coordinates.
MaxViewRows == 2

ViewReadings == {354, 355, 500, 554, 1000, 2505}

ViewRecords ==
    { With(With(With(BaseRecord, "location", PyStr(l)), "value", PyNum(v)), "coordinates", c) :
        l \in {"A", "B"}, v \in ViewReadings,
        c \in {BaseRecord["coordinates"], PyStr("n/a")} }
    \cup { With(BaseRecord, "parameter", PyStr("no2")) }

ViewBatches == UNION { [1..n -> ViewRecords] : n \in 1..MaxViewRows }

InitView == \E batch \in ViewBatches : LoadedBy(batch)

NextView == OpenApp \/ SetThreshold \/ SelectLocation

SpecView == InitView /\ [][NextView]_vars

\* Snapshots for the ranking: more locations than the smallest ranking size,
\* each with no reading, one reading or two.
NumRankLocations == 6

RankProfiles == { <<>>, <<300>>, <<900>>, <<300, 900>> }

RECURSIVE RankBatch(_, _)
RankBatch(profile, k) ==
    IF k = 0 THEN <<>>
    ELSE [i \in 1..Len(profile[k]) |->
            With(With(BaseRecord, "location", PyStr(LocationNames[k])),
                 "value", PyNum(profile[k][i]))]
         \o RankBatch(profile, k - 1)

InitRank ==
    \E profile \in [1..NumRankLocations -> RankProfiles] :
        /\ profile # [k \in 1..NumRankLocations |-> <<>>]
        /\ LoadedBy(RankBatch(profile, NumRankLocations))

NextRank == OpenApp \/ SetTopN

SpecRank == InitRank /\ [][NextRank]_vars

(***************************************************************************)
(* Properties of the pipeline (specification Spec).                        *)
(***************************************************************************)
\* The records of the current response, as fetched.
Results == response.json["results"]

FetchSucceeded == pc # "start" /\ raw_data # None
TransformRan == pc \in {"transformed", "done"} /\ raw_data # None

\* A fetched record that is a PM2.5 reading with a value above zero.
IsValidReading(rec) ==
    /\ "parameter" \in DOMAIN rec /\ rec["parameter"] = PyStr("pm25")
    /\ "value" \in DOMAIN rec /\ rec["value"].type = "float" /\ rec["value"].v > 0

ValidReadings == SelectSeq(Results, IsValidReading)

\* C1: the table is touched only by a run whose fetch and transform both
\* succeeded: a run in which either failed never calls load_to_sqlite and
\* ends with air.db exactly as it found it.
C1_FailedRunLeavesTable ==
    (raw_data = None \/ cleaned_data = None)
        => (load_result = "not_called" /\ db = db_before)

C1_Witness ==
    /\ pc = "done" /\ raw_data # None /\ cleaned_data = None
    /\ db.table /\ Len(db.rows) > 0

\* A cell of the table holds the cell x of the frame: NULL for a missing
\* value, the text of a timestamp, and otherwise the value itself.
Stores(cell, x) ==
    IF x.type \in {"None", "nan", "NaT"} THEN cell = NULL
    ELSE IF x.type = "Timestamp" THEN cell = PyStr(x.v)
    ELSE cell = x

\* C2: after a successful load the table holds exactly the rows passed in,
\* whatever it held before, and a second run on the same response leaves
\* the table as the first run left it.
C2_LoadReplacesTable ==
    (pc = "done" /\ load_result = "ok") =>
        /\ db.file /\ db.table
        /\ Len(db.rows) = Len(cleaned_data.rows)
        /\ \A i \in 1..Len(db.rows) :
              /\ DOMAIN db.rows[i] = schema_columns
              /\ \A c \in schema_columns : Stores(db.rows[i][c], cleaned_data.rows[i][c])
        /\ (repeat => db = db_before)

C2_Witness ==
    /\ pc = "done" /\ load_result = "ok" /\ repeat
    /\ Len(db.rows) >= 2

\* C3: when transform succeeds, every output row is a pm25 row with a value
\* above zero, and the output rows are, in order, the fetched records that
\* are pm25 readings with a value above zero.
C3_FilterCorrect ==
    (TransformRan /\ cleaned_data # None) =>
        /\ \A i \in 1..Len(cleaned_data.rows) :
              /\ cleaned_data.rows[i]["parameter"] = PyStr("pm25")
              /\ cleaned_data.rows[i]["pm25_value"].type = "float"
              /\ cleaned_data.rows[i]["pm25_value"].v > 0
        /\ Len(cleaned_data.rows) = Len(ValidReadings)
        /\ \A i \in 1..Len(ValidReadings) :
              /\ cleaned_data.rows[i]["pm25_value"] = ValidReadings[i]["value"]
              /\ cleaned_data.rows[i]["location"] = ValidReadings[i]["location"]

C3_Witness ==
    /\ TransformRan /\ cleaned_data # None
    /\ Len(cleaned_data.rows) = 1
    /\ \E i \in 1..Len(Results) : Results[i]["parameter"] = PyStr("no2")

\* C4: a run whose fetch succeeded and which has no valid row (only other
\* pollutants or values not above zero, or no record at all) still loads,
\* and ends with the table existing and empty.
C4_ZeroRowsStillLoads ==
    (pc = "done" /\ FetchSucceeded /\ Len(ValidReadings) = 0
        /\ load_result \in {"not_called", "ok"})
        => (load_result = "ok" /\ db = EmptyTable)

\* C5: coordinates that are absent or not a mapping never make transform
\* fail: a batch whose records are complete and parseable apart from their
\* coordinates is transformed, and the rows of records without usable
\* coordinates have null latitude and longitude.
CompleteApartFromCoordinates(rec) ==
    /\ {"location", "parameter", "value", "unit", "date"} \subseteq DOMAIN rec
    /\ rec["value"].type = "float"
    /\ ParsesAsDatetime(date_utc(rec["date"]))

HasUsableCoordinates(rec) ==
    "coordinates" \in DOMAIN rec /\ isinstance_dict(rec["coordinates"])

C5_CoordinatesNeverFail ==
    (TransformRan /\ Len(Results) > 0
        /\ \A i \in 1..Len(Results) : CompleteApartFromCoordinates(Results[i]))
        => /\ cleaned_data # None
           /\ \A i \in 1..Len(ValidReadings) :
                 ~HasUsableCoordinates(ValidReadings[i]) =>
                     /\ isna(cleaned_data.rows[i]["latitude"])
                     /\ isna(cleaned_data.rows[i]["longitude"])

(***************************************************************************)
(* Properties of the dashboard (specifications SpecView and SpecRank).     *)
(***************************************************************************)
AppRan == df # None

Reading(row) == row["pm25_value"].v

\* The colour the code gives a bar or a point, with the number it stands for.
Colored ==
    { <<avg_pm25[k].mean, colors[k]>> : k \in 1..Len(colors) }
    \cup { <<Frac(Reading(map_data[i].row), 1), map_data[i].color>> : i \in 1..Len(map_data) }

\* C6 (as claimed): below 50 is green, 50 to 100 inclusive is yellow, only
\* above 100 is red; exactly 100 is yellow.
C6_AsClaimed ==
    AppRan => \A p \in Colored :
        /\ (p[1].s < 500 * p[1].n) => p[2] = "green"
        /\ (p[1].s >= 500 * p[1].n /\ p[1].s <= 1000 * p[1].n) => p[2] = "yellow"
        /\ (p[1].s > 1000 * p[1].n) => p[2] = "red"

\* C6 (amended): below 50 is green, from 50 up to but not including 100 is
\* yellow, 100 and above is red; exactly 50 is yellow and exactly 100 is red.
C6_SeverityBands ==
    AppRan => \A p \in Colored :
        /\ (p[1].s < 500 * p[1].n) => p[2] = "green"
        /\ (p[1].s >= 500 * p[1].n /\ p[1].s < 1000 * p[1].n) => p[2] = "yellow"
        /\ (p[1].s >= 1000 * p[1].n) => p[2] = "red"

C6_Witness ==
    /\ AppRan
    /\ \E i \in 1..Len(map_data) : Reading(map_data[i].row) = 500 /\ map_data[i].color = "yellow"
    /\ \E i \in 1..Len(map_data) : Reading(map_data[i].row) = 1000 /\ map_data[i].color = "red"

\* The rows of the snapshot as the alert view shows them.
AlertColumns == {"location", "pm25_value", "datetime_utc"}
AlertRow(row) == [c \in AlertColumns |-> row[c]]
Listed == { critical_locations[i] : i \in 1..Len(critical_locations) }
CategoryOf(row) == get_air_quality_status(Frac(Reading(row), 1))

\* C7 (as claimed): the alert view lists exactly the rows whose category is
\* 'Unhealthy for Sensitive Groups' or worse, that is every row above 35.4.
C7_AsClaimed ==
    AppRan => Listed = { AlertRow(df.rows[i]) :
                            i \in { j \in 1..Len(df.rows) : Reading(df.rows[j]) > 354 } }

\* C7 (amended): the alert view lists exactly the rows whose category is
\* 'Unhealthy' or worse, that is every row above 55.4; no row categorised
\* Good, Moderate or Unhealthy for Sensitive Groups is listed.
C7_AlertRows ==
    AppRan =>
        /\ Listed = { AlertRow(df.rows[i]) :
                        i \in { j \in 1..Len(df.rows) : Reading(df.rows[j]) > 554 } }
        /\ \A i \in 1..Len(df.rows) :
              AlertRow(df.rows[i]) \in Listed
                  <=> CategoryOf(df.rows[i]) \in {"Unhealthy", "Very Unhealthy", "Hazardous"}
        /\ (alert = "no_critical") <=> (Listed = {})

C7_Witness ==
    /\ AppRan
    /\ Cardinality(Listed) = 1
    /\ \E i \in 1..Len(df.rows) :
          CategoryOf(df.rows[i]) = "Unhealthy for Sensitive Groups"

\* C8: the map shows exactly the rows at or above the threshold that have
\* both coordinates; no row without coordinates is on the map.
HasCoordinates(row) == ~isna(row["latitude"]) /\ ~isna(row["longitude"])

C8_MapExcludesNoCoordinates ==
    AppRan =>
        LET wanted(row) == Reading(row) >= pm25_threshold * 10 /\ HasCoordinates(row)
        IN [i \in 1..Len(map_data) |-> map_data[i].row] = SelectSeq(df.rows, wanted)

\* C9: on a snapshot of no rows the summary statistics show a defined empty
\* result, not a formatted NaN, nothing is given a health category, and the
\* alert view reports that no critical level was detected.
C9_EmptySnapshot ==
    (AppRan /\ df.rows = <<>>) =>
        /\ \A m \in {"max", "min", "mean"} : summary[m].value # [text |-> "nan"]
        /\ status.status \notin {"Good", "Moderate", "Unhealthy for Sensitive Groups",
                                 "Unhealthy", "Very Unhealthy", "Hazardous"}
        /\ alert = "no_critical"

\* The locations of the snapshot and their exact means, from the rows.
LocationsOf == { df.rows[i]["location"].v : i \in 1..Len(df.rows) }
RowsAt(l) == { i \in 1..Len(df.rows) : df.rows[i]["location"].v = l }

RECURSIVE TotalOf(_)
TotalOf(indices) ==
    IF indices = {} THEN 0
    ELSE LET i == CHOOSE j \in indices : TRUE
         IN Reading(df.rows[i]) + TotalOf(indices \ {i})

\* mean of location a <= mean of location b
MeanLeq(a, b) ==
    TotalOf(RowsAt(a)) * Cardinality(RowsAt(b)) <= TotalOf(RowsAt(b)) * Cardinality(RowsAt(a))

\* C10: the ranking holds min(N, number of locations) distinct locations,
\* each with the mean of its rows, in descending order of mean, and no
\* location left out has a higher mean than one that is in.
C10_Ranking ==
    AppRan =>
        /\ Len(avg_pm25) = IF top_n < Cardinality(LocationsOf) THEN top_n
                           ELSE Cardinality(LocationsOf)
        /\ \A k \in 1..Len(avg_pm25) :
              /\ avg_pm25[k].location \in LocationsOf
              /\ avg_pm25[k].mean = Frac(TotalOf(RowsAt(avg_pm25[k].location)),
                                         Cardinality(RowsAt(avg_pm25[k].location)))
        /\ \A j, k \in 1..Len(avg_pm25) :
              j < k => /\ avg_pm25[j].location # avg_pm25[k].location
                       /\ MeanLeq(avg_pm25[k].location, avg_pm25[j].location)
        /\ \A l \in LocationsOf :
              (\A k \in 1..Len(avg_pm25) : avg_pm25[k].location # l)
                  => \A k \in 1..Len(avg_pm25) : MeanLeq(l, avg_pm25[k].location)

C10_Witness ==
    /\ AppRan
    /\ Cardinality(LocationsOf) > top_n
    /\ Len(avg_pm25) = top_n
    /\ less(avg_pm25[top_n].mean, avg_pm25[1].mean)
    /\ \E k \in 1..Len(avg_pm25) : avg_pm25[k].mean.n = 2

====
